---- MODULE Spec2Model ----
(***************************************************************************)
(* Brain CT Scan Analyzer (src/streamlit_app.py).                          *)
(*                                                                         *)
(* The module models                                                       *)
(*   - the pixel normalisation of load_dicom_image on fixed-width integer  *)
(*     arrays (numpy semantics: integer subtraction in the array's dtype,  *)
(*     true division in float64, astype(np.uint8) truncating toward zero), *)
(*   - the page run of the local flow (main, lines 64-114), and            *)
(*   - the page run of the remote flow (main, lines 211-260).              *)
(*                                                                         *)
(* Quantities with decimals (confidences, probabilities) are integers in   *)
(* thousandths; percentages shown with two decimals are integers in        *)
(* hundredths of a percent.                                                *)
(***************************************************************************)
EXTENDS Integers, Sequences, FiniteSets, TLC

VARIABLES
    cast_mode,      \* what the build's float -> uint8 cast does out of range
    uploaded_file,  \* the file_uploader widget's value
    button,         \* TRUE in the run that the "Analyze Scan" click triggers
    pc,             \* position of the page run
    dicom_image,    \* main's dicom_image (None or the normalised array)
    invalid_cast,   \* the returned array holds a cast of NaN or of an
                    \* out-of-range float (numpy's "invalid value" warning)
    page,           \* the elements rendered by the current run, in order
    shown,          \* the array handed to imshow in this run (None if none)
    posts,          \* the HTTP POSTs sent in this run, in order
    ai_results,     \* main's ai_results (remote flow)
    response        \* what the endpoint answered in this run (remote flow)

vars == <<cast_mode, uploaded_file, button, pc, dicom_image, invalid_cast,
          page, shown, posts, ai_results, response>>

-----------------------------------------------------------------------------
(* Bounds of the model *)

\* bit width of the modelled pixel dtype (int16 / uint16 in a CT file)
WBits == 4
\* largest number of pixels of an array
MaxLen == 4
\* longest "probabilities" list in a response body
MaxProbs == 6

-----------------------------------------------------------------------------
(* Python / numpy helpers *)

\* Python's None, for an array or a file
None == <<>>

Abs(n) == IF n < 0 THEN -n ELSE n

\* C truncation toward zero of the exact quotient n / d (d # 0)
TruncDiv(n, d) ==
    IF (n >= 0) = (d > 0) THEN Abs(n) \div Abs(d) ELSE -(Abs(n) \div Abs(d))

MinVal(dtype) == IF dtype = "int" THEN -(2^(WBits - 1)) ELSE 0
MaxVal(dtype) == IF dtype = "int" THEN 2^(WBits - 1) - 1 ELSE 2^WBits - 1

\* the value a fixed-width integer of `dtype` holds for the mathematical n
Wrap(dtype, n) == ((n - MinVal(dtype)) % (2^WBits)) + MinVal(dtype)

\* numpy integer subtraction in the operands' dtype
Sub(dtype, x, y) == Wrap(dtype, x - y)

array_min(a) == CHOOSE m \in {a[i] : i \in DOMAIN a} : \A i \in DOMAIN a : m <= a[i]
array_max(a) == CHOOSE m \in {a[i] : i \in DOMAIN a} : \A i \in DOMAIN a : m >= a[i]

\* (num / den * 255) in float64, as the integral part the cast keeps, or a
\* non-finite value (0/0 = NaN, x/0 = inf)
scale255(num, den) ==
    IF den = 0 THEN [finite |-> FALSE, int |-> 0]
    ELSE [finite |-> TRUE, int |-> TruncDiv(num * 255, den)]

\* the cast of v is outside what C defines
cast_is_invalid(v) == ~v.finite \/ v.int < 0 \/ v.int > 255

CastModes == {"wrap", "saturate"}

\* .astype(np.uint8): defined in 0..255; outside, the build decides: the low
\* byte of the integer conversion (x86) or the nearest bound (ARM)
astype_uint8(v, mode) ==
    IF ~v.finite THEN 0
    ELSE IF v.int \in 0..255 THEN v.int
    ELSE IF mode = "wrap" THEN v.int % 256
    ELSE IF v.int < 0 THEN 0 ELSE 255

\* lines 18-19 before the cast
scaled_array(dtype, a) ==
    LET lo == array_min(a)
        hi == array_max(a)
        den == Sub(dtype, hi, lo)
    IN  [i \in DOMAIN a |-> scale255(Sub(dtype, a[i], lo), den)]

\* lines 17-19
normalize(dtype, a, mode) ==
    LET s == scaled_array(dtype, a)
    IN  [i \in DOMAIN a |-> astype_uint8(s[i], mode)]

-----------------------------------------------------------------------------
(* Rendered elements *)

Elem(kind, text, value) == [kind |-> kind, text |-> text, value |-> value]

ProcessingError == Elem("error", "Error processing DICOM file", 0)

Count(kind) == Cardinality({i \in DOMAIN page : page[i].kind = kind})
Has(text) == \E i \in DOMAIN page : page[i].text = text

-----------------------------------------------------------------------------
(* Files *)

NoFile == [kind |-> "none", dtype |-> "uint", pixels |-> None]

\* bytes that are no DICOM file, and a DICOM file without pixel data
BadFiles == {[kind |-> "bad", dtype |-> "uint", pixels |-> None],
             [kind |-> "nopixels", dtype |-> "uint", pixels |-> None]}

Dtypes == {"int", "uint"}

\* the arrays of n pixels of a dtype
Arrays(dtype, n) == [1..n -> MinVal(dtype)..MaxVal(dtype)]

DicomFile(dtype, a) == [kind |-> "dicom", dtype |-> dtype, pixels |-> a]

IsConstant(a) == array_min(a) = array_max(a)

\* the true spread of a signed array exceeds the dtype's largest value
SpreadOverflows(f) ==
    /\ f.kind = "dicom"
    /\ array_max(f.pixels) - array_min(f.pixels) > MaxVal(f.dtype)

-----------------------------------------------------------------------------
(* load_dicom_image, lines 8-24 (and 131-146) *)

\* load_dicom_image without its try/except: the decoder's exception escapes
load_dicom_image_no_except(file, mode) ==
    IF file.kind # "dicom"
    THEN [image |-> None, invalid |-> FALSE, notices |-> <<>>, raised |-> TRUE]
    ELSE [image |-> normalize(file.dtype, file.pixels, mode),
          invalid |-> \E i \in DOMAIN file.pixels :
                         cast_is_invalid(scaled_array(file.dtype, file.pixels)[i]),
          notices |-> <<>>,
          raised |-> FALSE]

load_dicom_image(file, mode) ==
    IF file.kind # "dicom"
    THEN \* dcmread or pixel_array raised: except Exception
         [image |-> None, invalid |-> FALSE, notices |-> <<ProcessingError>>,
          raised |-> FALSE]
    ELSE [image |-> normalize(file.dtype, file.pixels, mode),
          invalid |-> \E i \in DOMAIN file.pixels :
                         cast_is_invalid(scaled_array(file.dtype, file.pixels)[i]),
          notices |-> <<>>,
          raised |-> FALSE]

-----------------------------------------------------------------------------
(* Files a user uploads in the page flows: undecodable bytes, a DICOM file *)
(* without pixel data, and arrays that are constant, ordinary, and (signed)*)
(* of a spread beyond the dtype's largest value                            *)

SampleFiles ==
    BadFiles \cup
    {[kind |-> "dicom", dtype |-> "uint", pixels |-> <<2, 2, 2>>],
     [kind |-> "dicom", dtype |-> "uint", pixels |-> <<0, 1, 2>>],
     [kind |-> "dicom", dtype |-> "int",
      pixels |-> <<MinVal("int"), 0, MaxVal("int") - 1, MaxVal("int")>>]}

-----------------------------------------------------------------------------
(* simulate_prediction, lines 40-62 *)

hemorrhage_types ==
    <<"Epidural Hemorrhage", "Subdural Hemorrhage", "Subarachnoid Hemorrhage",
      "Intraventricular Hemorrhage", "Intracerebral Hemorrhage">>

\* random.uniform(0.6, 0.95), in thousandths
ConfLo == 600
ConfHi == 950

\* the draw left unrounded
round2_none(x) == {x}

\* round(x, 2) of x in thousandths: the nearest hundredth; at a decimal tie
\* the float's binary value decides, so either neighbour
round2(x) ==
    LET down == (x \div 10) * 10
    IN  IF x % 10 < 5 THEN {down}
        ELSE IF x % 10 > 5 THEN {down + 10}
        ELSE {down, down + 10}

\* f"{x * 100:.2f}%" of x in thousandths, in hundredths of a percent
Percent2f(x) == x * 10

\* the (predicted_type, confidence) pairs random.choice and round(uniform)
\* can produce
simulate_draws ==
    {<<hemorrhage_types[i], c>> :
        i \in DOMAIN hemorrhage_types,
        c \in UNION {round2(r) : r \in ConfLo..ConfHi}}

\* st.success and st.info of lines 61-62 for one draw
simulate_prediction(draw) ==
    <<Elem("success", draw[1], 0), Elem("info", "Confidence", Percent2f(draw[2]))>>

-----------------------------------------------------------------------------
(* display_dicom_image, lines 26-38 *)

display_dicom_image == <<Elem("pyplot", "DICOM Brain CT Scan", 0)>>

-----------------------------------------------------------------------------
(* The local flow: main, lines 64-114, one action per block of the script *)

NoResults == [is_none |-> TRUE, keys |-> {}, probabilities |-> <<>>,
              predicted_type |-> "None", confidence |-> 0]

\* no request was answered
NoResponse == [kind |-> "none", status |-> 0, body |-> NoResults]

RunReset ==
    /\ dicom_image' = None
    /\ invalid_cast' = FALSE
    /\ shown' = None
    /\ posts' = <<>>
    /\ ai_results' = NoResults
    /\ response' = NoResponse

\* lines 65-91: page config, title, sidebar, file uploader
main_start ==
    /\ pc = "run"
    /\ page' = <<Elem("title", "Brain CT Scan Analyzer", 0),
                 Elem("file_uploader", "Upload DICOM Brain CT Scan", 0)>>
    /\ RunReset
    /\ pc' = IF uploaded_file # NoFile THEN "load" ELSE "about"
    /\ UNCHANGED <<cast_mode, uploaded_file, button>>

\* lines 93-95: dicom_image = load_dicom_image(uploaded_file)
main_load ==
    /\ pc = "load"
    /\ LET r == load_dicom_image(uploaded_file, cast_mode)
       IN  /\ dicom_image' = r.image
           /\ invalid_cast' = r.invalid
           /\ page' = IF r.raised THEN page \o <<Elem("exception", "Traceback", 0)>>
                      ELSE page \o r.notices
           /\ pc' = IF r.raised THEN "crashed" ELSE "display"
    /\ UNCHANGED <<cast_mode, uploaded_file, button, shown, posts, ai_results, response>>

\* lines 97-99: the scan, when it was decoded
main_display ==
    /\ pc = "display"
    /\ IF dicom_image # None
       THEN /\ page' = page \o <<Elem("subheader", "Brain CT Scan", 0)>>
                            \o display_dicom_image
            /\ shown' = dicom_image
       ELSE UNCHANGED <<page, shown>>
    /\ pc' = "analysis"
    /\ UNCHANGED <<cast_mode, uploaded_file, button, dicom_image, invalid_cast,
                   posts, ai_results, response>>

\* lines 101-105: the analysis column, its button, and the simulated result
main_analysis ==
    /\ pc = "analysis"
    /\ \E draw \in simulate_draws :
          page' = page \o <<Elem("subheader", "AI Analysis", 0),
                            Elem("button", "Analyze Scan", 0)>>
                       \o (IF button THEN simulate_prediction(draw) ELSE <<>>)
    /\ pc' = "about"
    /\ UNCHANGED <<cast_mode, uploaded_file, button, dicom_image, invalid_cast,
                   shown, posts, ai_results, response>>

\* lines 107-114: the closing notes; the run ends and the click is consumed
main_about ==
    /\ pc = "about"
    /\ page' = page \o <<Elem("markdown", "About This Tool", 0)>>
    /\ pc' = "done"
    /\ button' = FALSE
    /\ UNCHANGED <<cast_mode, uploaded_file, dicom_image, invalid_cast, shown,
                   posts, ai_results, response>>

RunOver == pc \in {"done", "crashed"}

\* the user picks a file: the widget's value changes and the script reruns
user_upload ==
    /\ RunOver
    /\ \E f \in SampleFiles : uploaded_file' = f
    /\ button' = FALSE
    /\ pc' = "run"
    /\ UNCHANGED <<cast_mode, dicom_image, invalid_cast, page, shown, posts,
                   ai_results, response>>

\* the user removes the file
user_clear ==
    /\ RunOver
    /\ uploaded_file # NoFile
    /\ uploaded_file' = NoFile
    /\ button' = FALSE
    /\ pc' = "run"
    /\ UNCHANGED <<cast_mode, dicom_image, invalid_cast, page, shown, posts,
                   ai_results, response>>

\* the user clicks "Analyze Scan", which the last run rendered
user_click ==
    /\ RunOver
    /\ \E i \in DOMAIN page : page[i].kind = "button"
    /\ button' = TRUE
    /\ pc' = "run"
    /\ UNCHANGED <<cast_mode, uploaded_file, dicom_image, invalid_cast, page,
                   shown, posts, ai_results, response>>

Init ==
    /\ cast_mode \in CastModes
    /\ uploaded_file = NoFile
    /\ button = FALSE
    /\ pc = "run"
    /\ dicom_image = None
    /\ invalid_cast = FALSE
    /\ page = <<>>
    /\ shown = None
    /\ posts = <<>>
    /\ ai_results = NoResults
    /\ response = NoResponse

Next ==
    \/ main_start
    \/ main_load
    \/ main_display
    \/ main_analysis
    \/ main_about
    \/ user_upload
    \/ user_clear
    \/ user_click

Spec == Init /\ [][Next]_vars

-----------------------------------------------------------------------------
(* The normalisation on every array of the bounds: load_dicom_image applied *)
(* to one file                                                              *)

InitNorm ==
    /\ cast_mode \in CastModes
    /\ \/ uploaded_file \in BadFiles
       \/ \E t \in Dtypes, n \in 1..MaxLen :
             \E a \in Arrays(t, n) : uploaded_file = DicomFile(t, a)
    /\ button = FALSE
    /\ pc = "load"
    /\ dicom_image = None
    /\ invalid_cast = FALSE
    /\ page = <<>>
    /\ shown = None
    /\ posts = <<>>
    /\ ai_results = NoResults
    /\ response = NoResponse

SpecNorm == InitNorm /\ [][main_load]_vars

\* the same on unsigned arrays only, where no difference can wrap
InitNormUnsigned == InitNorm /\ uploaded_file.dtype = "uint"

SpecNormUnsigned == InitNormUnsigned /\ [][main_load]_vars

-----------------------------------------------------------------------------
(* The remote flow, lines 119-263 *)

\* lines 194-200 and 247-253
short_types ==
    <<"Epidural", "Subdural", "Subarachnoid", "Intraventricular", "Intracerebral">>

\* line 153
TransportSize == 224

\* convert_image_to_base64, lines 148-158: the image resized to 224 x 224,
\* as a base64 PNG
convert_image_to_base64(image) ==
    [width |-> TransportSize, height |-> TransportSize, of |-> image]

Keys == {"predicted_type", "confidence", "probabilities"}

\* probabilities and confidences of a response, in thousandths
ProbValues == {50, 820}

ProbLists == UNION {[1..n -> ProbValues] : n \in 0..MaxProbs}

\* a JSON object of a response body: its keys, and the values of those present
Body(keys, probs, ptype, conf) ==
    [is_none |-> FALSE, keys |-> keys, probabilities |-> probs,
     predicted_type |-> ptype, confidence |-> conf]

Bodies ==
    {Body(k, IF "probabilities" \in k THEN p ELSE <<>>,
          IF "predicted_type" \in k THEN "Subdural Hemorrhage" ELSE "None",
          IF "confidence" \in k THEN 820 ELSE 0) :
        k \in SUBSET Keys, p \in ProbLists}

EmptyBody == Body({}, <<>>, "None", 0)

FullBody == Body(Keys, <<50, 820, 50, 50, 50>>, "Subdural Hemorrhage", 820)

ErrorStatuses == {404, 500}

\* what the endpoint does with one request
Responses ==
    {[kind |-> "neterr", status |-> 0, body |-> EmptyBody]}
    \cup {[kind |-> "http", status |-> 200, body |-> b] : b \in Bodies}
    \cup {[kind |-> "http", status |-> st, body |-> b] :
             st \in ErrorStatuses, b \in {EmptyBody, FullBody}}

\* dict.get(key, default)
dict_get(d, key, default) == IF key \in d.keys THEN d[key] ELSE default

\* Python truth of ai_results: None and {} are false
Truthy(r) == ~r.is_none /\ r.keys # {}

\* send_to_ai_model returning the body whatever the status
send_no_status_check(base64_image, resp) ==
    LET request == [image |-> base64_image]
    IN  IF resp.kind = "neterr"
        THEN [result |-> NoResults, requests |-> <<request>>,
              notices |-> <<Elem("error", "Network error", 0)>>]
        ELSE [result |-> resp.body, requests |-> <<request>>, notices |-> <<>>]

\* send_to_ai_model sending the request a second time after a failure
send_with_retry(base64_image, resp) ==
    LET request == [image |-> base64_image]
    IN  IF resp.kind = "neterr"
        THEN [result |-> NoResults, requests |-> <<request, request>>,
              notices |-> <<Elem("error", "Network error", 0)>>]
        ELSE IF resp.status = 200
        THEN [result |-> resp.body, requests |-> <<request>>, notices |-> <<>>]
        ELSE [result |-> NoResults, requests |-> <<request, request>>,
              notices |-> <<Elem("error", "Model API error", resp.status)>>]

\* send_to_ai_model, lines 160-179
send_to_ai_model(base64_image, resp) ==
    LET request == [image |-> base64_image]
    IN  IF resp.kind = "neterr"
        THEN [result |-> NoResults, requests |-> <<request>>,
              notices |-> <<Elem("error", "Network error", 0)>>]
        ELSE IF resp.status = 200
        THEN [result |-> resp.body, requests |-> <<request>>, notices |-> <<>>]
        ELSE [result |-> NoResults, requests |-> <<request>>,
              notices |-> <<Elem("error", "Model API error", resp.status)>>]

FiveZeros == [i \in DOMAIN short_types |-> 0]

\* display_results, lines 181-209; ax2.bar broadcasts a single height over the
\* five labels and raises ValueError on any other length mismatch
display_results(original_image, results) ==
    LET probabilities == dict_get(results, "probabilities", FiveZeros)
    IN  IF ~Truthy(results)
        THEN [raised |-> FALSE,
              elems |-> <<Elem("pyplot", "Original DICOM Image", <<>>)>>]
        ELSE IF Len(probabilities) \notin {1, Len(short_types)}
        THEN [raised |-> TRUE, elems |-> <<Elem("exception", "ValueError", <<>>)>>]
        ELSE [raised |-> FALSE,
              elems |-> <<Elem("pyplot", "Hemorrhage Type Probabilities",
                               [i \in DOMAIN short_types |->
                                   IF Len(probabilities) = 1 THEN probabilities[1]
                                   ELSE probabilities[i]])>>]

Min(a, b) == IF a <= b THEN a ELSE b

\* lines 245-260: one metric per zipped (type, prob) pair, then the summary
detailed_analysis(results) ==
    LET probabilities == dict_get(results, "probabilities", FiveZeros)
        n == Min(Len(short_types), Len(probabilities))
    IN  <<Elem("subheader", "Detailed Analysis", 0)>>
        \o [i \in 1..n |-> Elem("metric", short_types[i], Percent2f(probabilities[i]))]
        \o <<Elem("success", dict_get(results, "predicted_type", "None"), 0),
             Elem("info", "Confidence", Percent2f(dict_get(results, "confidence", 0)))>>

\* lines 212-229: title, sidebar, file uploader
remote_start ==
    /\ pc = "run"
    /\ page' = <<Elem("title", "Brain Hemorrhage Classifier", 0),
                 Elem("file_uploader", "Upload DICOM Brain CT Scan", 0)>>
    /\ RunReset
    /\ pc' = IF uploaded_file # NoFile THEN "load" ELSE "done"
    /\ UNCHANGED <<cast_mode, uploaded_file, button>>

\* lines 230-234: dicom_image = load_dicom_image(uploaded_file)
remote_load ==
    /\ pc = "load"
    /\ LET r == load_dicom_image(uploaded_file, cast_mode)
       IN  /\ dicom_image' = r.image
           /\ invalid_cast' = r.invalid
           /\ page' = IF r.raised THEN page \o <<Elem("exception", "Traceback", 0)>>
                      ELSE page \o r.notices
           /\ pc' = IF r.raised THEN "crashed"
                    ELSE IF r.image # None THEN "send" ELSE "done"
    /\ UNCHANGED <<cast_mode, uploaded_file, button, shown, posts, ai_results, response>>

\* lines 235-241: encode, send, and test the result
remote_send ==
    /\ pc = "send"
    /\ \E resp \in Responses :
          LET r == send_to_ai_model(convert_image_to_base64(dicom_image), resp)
          IN  /\ response' = resp
              /\ ai_results' = r.result
              /\ posts' = posts \o r.requests
              /\ page' = page \o r.notices
              /\ pc' = IF Truthy(r.result) THEN "results" ELSE "done"
    /\ UNCHANGED <<cast_mode, uploaded_file, button, dicom_image, invalid_cast,
                   shown>>

\* lines 242-243: display_results(dicom_image, ai_results)
remote_display ==
    /\ pc = "results"
    /\ LET r == display_results(dicom_image, ai_results)
       IN  /\ page' = page \o r.elems
           /\ shown' = IF r.raised THEN shown ELSE dicom_image
           /\ pc' = IF r.raised THEN "crashed" ELSE "details"
    /\ UNCHANGED <<cast_mode, uploaded_file, button, dicom_image, invalid_cast,
                   posts, ai_results, response>>

\* lines 245-260: the per-label metrics and the prediction summary
remote_details ==
    /\ pc = "details"
    /\ page' = page \o detailed_analysis(ai_results)
    /\ pc' = "done"
    /\ UNCHANGED <<cast_mode, uploaded_file, button, dicom_image, invalid_cast,
                   shown, posts, ai_results, response>>

NextRemote ==
    \/ remote_start
    \/ remote_load
    \/ remote_send
    \/ remote_display
    \/ remote_details
    \/ user_upload
    \/ user_clear

SpecRemote == Init /\ [][NextRemote]_vars

-----------------------------------------------------------------------------
(* Properties *)

Pixels == uploaded_file.pixels

\* load_dicom_image has returned for a decodable file
Loaded == pc = "display" /\ uploaded_file.kind = "dicom"

InRange(a) == array_min(a) = 0 /\ array_max(a) = 255

Monotonic(in, out) ==
    \A i, j \in DOMAIN in : in[i] <= in[j] => out[i] <= out[j]

\* C1: for every non-constant integer pixel array the array load_dicom_image
\* returns has the shape of the input, minimum 0 and maximum 255, and is
\* monotonic non-decreasing in the input.
C1_RangeAndMonotonic ==
    (Loaded /\ ~IsConstant(Pixels)) =>
        /\ dicom_image # None
        /\ DOMAIN dicom_image = DOMAIN Pixels
        /\ InRange(dicom_image)
        /\ Monotonic(Pixels, dicom_image)

\* C2: on a constant-valued array load_dicom_image either returns None with
\* an error notice or returns a fully defined constant array; it never returns
\* an array cast from the result of a division by zero.
C2_ConstantArrayHandled ==
    (Loaded /\ IsConstant(Pixels)) =>
        \/ dicom_image = None /\ Count("error") = 1
        \/ /\ dicom_image # None
           /\ ~invalid_cast
           /\ \A i \in DOMAIN Pixels : scaled_array(uploaded_file.dtype, Pixels)[i].finite
           /\ IsConstant(dicom_image)

\* nearest integer to n / d (n >= 0, d > 0), ties to even as Python's round
RoundDiv(n, d) ==
    LET q == n \div d
        r == n % d
    IN  IF 2 * r < d THEN q
        ELSE IF 2 * r > d THEN q + 1
        ELSE IF q % 2 = 0 THEN q ELSE q + 1

\* C9: for every non-constant array each output element equals
\* round((x - lo) / (hi - lo) * 255), the scaled value rounded to the nearest
\* integer.
C9_RoundedToNearest ==
    (Loaded /\ ~IsConstant(Pixels)) =>
        /\ dicom_image # None
        /\ \A i \in DOMAIN Pixels :
              dicom_image[i] = RoundDiv((Pixels[i] - array_min(Pixels)) * 255,
                                        array_max(Pixels) - array_min(Pixels))

\* C10: for a signed array whose spread hi - lo exceeds the dtype's largest
\* value, the differences x - lo and hi - lo computed in the dtype do not
\* wrap, and the output has minimum 0, maximum 255 and is monotonic.
C10_WideSpreadKeepsContract ==
    (Loaded /\ SpreadOverflows(uploaded_file)) =>
        LET lo == array_min(Pixels)
            hi == array_max(Pixels)
        IN  /\ Sub(uploaded_file.dtype, hi, lo) = hi - lo
            /\ \A i \in DOMAIN Pixels :
                  Sub(uploaded_file.dtype, Pixels[i], lo) = Pixels[i] - lo
            /\ dicom_image # None
            /\ InRange(dicom_image)
            /\ Monotonic(Pixels, dicom_image)

\* the run is past load_dicom_image, on the file now in the uploader
PastLoad == pc \in {"display", "analysis", "about", "done", "crashed"}

\* C3: when the uploaded bytes are no DICOM file or carry no pixel data,
\* load_dicom_image raises nothing, emits exactly one error notice and returns
\* None; main renders no scan image in that run, and the run goes on to its
\* end.
C3_DecodeFailureIsNotFatal ==
    (PastLoad /\ uploaded_file \in BadFiles) =>
        /\ pc # "crashed"
        /\ Count("exception") = 0
        /\ dicom_image = None
        /\ Count("error") = 1
        /\ Has("Error processing DICOM file")
        /\ Count("pyplot") = 0
        /\ shown = None
        /\ pc # "done" => ENABLED (main_display \/ main_analysis \/ main_about)

C3_Witness ==
    /\ pc = "done"
    /\ uploaded_file \in BadFiles
    /\ Count("error") = 1
    /\ Count("markdown") = 1

Range(f) == {f[i] : i \in DOMAIN f}

\* C4: whatever the sequence of runs, a displayed prediction is one of the
\* five hemorrhage types with a confidence between 60.00% and 95.00% that has
\* at most two decimal places as a fraction (a whole number of percent).
C4_SimulatedPredictionInRange ==
    \A i \in DOMAIN page :
        /\ page[i].kind = "success" => page[i].text \in Range(hemorrhage_types)
        /\ page[i].kind = "info" =>
              /\ page[i].value >= Percent2f(600)
              /\ page[i].value <= Percent2f(950)
              /\ page[i].value % Percent2f(10) = 0

C4_Witness ==
    /\ pc = "done"
    /\ Count("success") = 1
    /\ \E i \in DOMAIN page : page[i].kind = "info" /\ page[i].value = Percent2f(950)

\* C5: a simulated prediction is shown in a run only if, in that run, a file
\* was uploaded, load_dicom_image returned an image, and the image was
\* displayed before the prediction.
C5_PredictionOnlyAfterDisplay ==
    (pc \in {"about", "done"} /\ Count("success") > 0) =>
        /\ uploaded_file # NoFile
        /\ dicom_image # None
        /\ shown # None
        /\ \E i, j \in DOMAIN page :
              i < j /\ page[i].kind = "pyplot" /\ page[j].kind = "success"

\* the endpoint answered with a status other than 200
ApiFailure == response.kind = "http" /\ response.status # 200

\* C6: after a non-200 answer send_to_ai_model has reported an API error
\* naming the status and returned None, nothing was raised, and main renders
\* no chart, no metric and no summary banner in that run.
C6_ApiErrorRendersNothing ==
    ApiFailure =>
        /\ ai_results = NoResults
        /\ Count("error") = 1
        /\ \E i \in DOMAIN page :
              /\ page[i].kind = "error"
              /\ page[i].text = "Model API error"
              /\ page[i].value = response.status
        /\ pc \in {"done", "run"}
        /\ Count("exception") = 0
        /\ Count("pyplot") = 0
        /\ Count("metric") = 0
        /\ Count("success") = 0
        /\ Count("info") = 0

C6_Witness ==
    /\ pc = "done"
    /\ response.kind = "http"
    /\ response.status = 500
    /\ response.body = FullBody

Metrics == SelectSeq(page, LAMBDA e : e.kind = "metric")

\* C7: for every HTTP 200 response the run does not crash and shows exactly
\* five metrics, the i-th labelled with the i-th type and valued
\* probabilities[i]; extra entries are ignored, missing ones padded with 0; a
\* response without probabilities gives five zeros, and one without
\* predicted_type and confidence a summary of None and 0.
C7_FiveAlignedValues ==
    (RunOver /\ response.kind = "http" /\ response.status = 200) =>
        LET p == dict_get(response.body, "probabilities", FiveZeros)
        IN  /\ pc = "done"
            /\ Len(Metrics) = Len(short_types)
            /\ \A i \in DOMAIN Metrics :
                  /\ Metrics[i].text = short_types[i]
                  /\ Metrics[i].value = Percent2f(IF i <= Len(p) THEN p[i] ELSE 0)
            /\ \E i \in DOMAIN page :
                  /\ page[i].kind = "success"
                  /\ page[i].text = dict_get(response.body, "predicted_type", "None")
            /\ \E i \in DOMAIN page :
                  /\ page[i].kind = "info"
                  /\ page[i].value = Percent2f(dict_get(response.body, "confidence", 0))

\* the request failed: no connection, or a status other than 200
RequestFailed == response.kind = "neterr" \/ ApiFailure

====
